---- MODULE Spec2Model ----
(***************************************************************************)
(* A model of celery.registry.TaskRegistry (src/celery/registry.py): the   *)
(* name -> handler mapping `data` and the operations register, unregister, *)
(* get_all, filter_types, get_all_regular, get_all_periodic and get_task.  *)
(*                                                                         *)
(* Python objects are records with the same fields:                        *)
(*   kind  "str"      a string (the key argument of unregister)            *)
(*         "class"    a Task subclass (a native handler: it has run, name  *)
(*                    and type as class attributes)                        *)
(*         "func"     a plain function (no run; the attribute name is set  *)
(*                    on it or not)                                        *)
(*         "instance" an instance of a Task subclass, of = "native" for a  *)
(*                    caller's class, "synth" for the one register makes  *)
(*         "value"    anything else (what a plain function returns)        *)
(* of = "run-attr" marks a plain function on which an attribute run that   *)
(* is not callable has been set (f.run = None).                            *)
(* An attribute an object does not have is NoAttr.                         *)
(*                                                                         *)
(* naming follows one derivation of a class name by name_to_clsname,      *)
(* with names as sequences of characters (SpecCls); threads follows two   *)
(* register calls whose steps interleave (SpecConc).                       *)
(***************************************************************************)
EXTENDS Integers, Sequences, FiniteSets, TLC

VARIABLES data, last, taskCallable, naming, threads

vars == <<data, last, taskCallable, naming, threads>>

\* ---------------------------------------------------------------- bounds
NumNames == 2
NameList == <<"a", "b", "c", "d">>
Names == {NameList[i] : i \in 1..NumNames}

\* ------------------------------------------------------------- constants
NoAttr == "<noattr>"
None == "<None>"
EmptyName == ""
NoKey == "<nokey>"
Types == {"regular", "periodic"}
FilterArgs == Types \cup {"other"}
NameArgs == Names \cup {None, EmptyName}
Funcs == {"const", "ident", "fail"}
ConstValue == "seven"
NoArgs == << >>
ArgLists == {NoArgs, <<"x">>, <<"y">>}

\* ---------------------------------------------------------------- objects
Obj(kind, of, name, type, fn, val) ==
    [kind |-> kind, of |-> of, name |-> name, type |-> type, fn |-> fn, val |-> val]

\* a string s, as the argument of unregister
Str(s) == Obj("str", "-", NoAttr, NoAttr, "-", s)

\* a Task subclass with the class attributes name and type (and run)
TaskClass(name, type) == Obj("class", "native", name, type, "-", "-")

\* a plain function fn; name is its attribute name, NoAttr when it has none
Function(fn, name) == Obj("func", "-", name, NoAttr, fn, "-")

\* a plain function fn that carries an attribute run that is not callable
FunctionWithRun(fn, name) == Obj("func", "run-attr", name, NoAttr, fn, "-")

\* what a plain function returns: an object with no name, type or run
Value(v) == Obj("value", "-", NoAttr, NoAttr, "-", v)

NativeTasks == {TaskClass(n, t) : n \in Names, t \in Types}
FuncTasks == {Function(f, n) : f \in Funcs, n \in {NoAttr, NameList[1]}}
RunAttrTasks == {FunctionWithRun("const", NoAttr)}
Tasks == NativeTasks \cup FuncTasks \cup RunAttrTasks
UnregisterArgs == {Str(n) : n \in Names} \cup NativeTasks

\* hasattr(obj, attr) for the attributes the registry probes
HasAttr(obj, attr) ==
    CASE attr = "run"  -> obj.kind \in {"class", "instance"} \/ obj.of = "run-attr"
      [] attr = "name" -> obj.name # NoAttr
      [] attr = "type" -> obj.type # NoAttr
      [] OTHER -> FALSE

\* the outcome of a call: exc = "none" and the returned object, or the
\* exception raised
Return(obj) == [exc |-> "none", val |-> obj]
Raise(e) == [exc |-> e, val |-> Value("-")]

\* f(*args) for the plain functions of the model:
\*   const = lambda *a: ConstValue;  ident = lambda x: x;
\*   fail  = a function whose body raises ValueError
FnCall(f, args) ==
    CASE f = "const" -> Return(Value(ConstValue))
      [] f = "ident" -> IF Len(args) = 1 THEN Return(Value(args[1]))
                        ELSE Raise("TypeError")
      [] f = "fail"  -> Raise("ValueError")

\* type(clsname, (Task, ), {"name": name, "type": "regular",
\*                          "run": runmethod})()
\* one instance of the class synthesized for the plain function fn
SynthInstance(name, fn) == Obj("instance", "synth", name, "regular", fn, "-")

\* cls(): one instance of a caller's Task subclass
Instantiate(cls) == Obj("instance", "native", cls.name, cls.type, "-", "-")

\* runmethod(self, *args, **kwargs): return task(*args, **kwargs)
Run(inst, args) == FnCall(inst.fn, args)

\* Task.__call__ of celery.task.base, not part of the source at hand: where
\* the base class defines it, it forwards to run; where it does not, an
\* instance is not callable.
CallInstance(inst, args, callable) ==
    IF callable THEN Run(inst, args) ELSE Raise("TypeError")

\* obj(): line 67 calls taskcls with no arguments
Call(obj, callable) ==
    IF obj.kind = "class" THEN Return(Instantiate(obj))
    ELSE IF obj.kind = "func" THEN FnCall(obj.fn, NoArgs)
    ELSE CallInstance(obj, NoArgs, callable)

EmptyData == [n \in {} |-> Value("-")]

\* self.data.setdefault(name, ...): an insert that keeps an entry already
\* there
InsertIfAbsent(d, k, v) == [n \in DOMAIN d \cup {k} |-> IF n \in DOMAIN d THEN d[n] ELSE v]

\* self.data = {name: ...}: an insert that drops every other entry
InsertOnly(d, k, v) == [n \in {k} |-> v]

Insert(d, k, v) == [n \in DOMAIN d \cup {k} |-> IF n = k THEN v ELSE d[n]]

\* del self.data[name] that deletes nothing
RemoveNothing(d, k) == d

\* del self.data[name] that empties the mapping
RemoveAll(d, k) == EmptyData

Remove(d, k) == [n \in DOMAIN d \ {k} |-> d[n]]

\* `if not name`: None and the empty string are both false
NameOmitted(nameArg) == nameArg \in {None, EmptyName}

\* a register that falls back to a fixed key when the task has no name
ResolveNameDefault(task, nameArg) ==
    IF NameOmitted(nameArg)
    THEN IF HasAttr(task, "name") THEN task.name ELSE NameList[1]
    ELSE nameArg

\* a register that takes the task's own name whenever it has one
ResolveNamePreferAttr(task, nameArg) ==
    IF HasAttr(task, "name") THEN task.name
    ELSE IF NameOmitted(nameArg) THEN NoKey ELSE nameArg

\* lines 49-50: the key register uses, NoKey when getattr raises
ResolveName(task, nameArg) ==
    IF NameOmitted(nameArg)
    THEN IF HasAttr(task, "name") THEN task.name ELSE NoKey
    ELSE nameArg

\* a membership test that never finds the name
NameTakenNever(d, name) == FALSE

\* line 52: name in self.data
NameTaken(d, name) == name \in DOMAIN d

\* a register that takes a task for a class only when its run is callable
TaskClsCallableRun(task, name) ==
    IF task.kind = "class" THEN task ELSE SynthInstance(name, task.fn)

\* lines 56-65: the object line 67 calls
TaskCls(task, name) ==
    IF HasAttr(task, "run") THEN task ELSE SynthInstance(name, task.fn)

\* a register that stores the entry before it tests for the name
RegisterStoreFirst(d, task, nameArg, callable) ==
    LET name == ResolveName(task, nameArg) IN
    IF name = NoKey THEN [exc |-> "AttributeError", key |-> NoKey, data |-> d]
    ELSE LET r == Call(TaskCls(task, name), callable) IN
         IF NameTaken(d, name)
         THEN [exc |-> "AlreadyRegistered", key |-> name,
               data |-> IF r.exc = "none" THEN Insert(d, name, r.val) ELSE d]
         ELSE IF r.exc # "none" THEN [exc |-> r.exc, key |-> name, data |-> d]
         ELSE [exc |-> "none", key |-> name, data |-> Insert(d, name, r.val)]

\* register(task, name): the exception raised ("none" on success), the
\* resolved key and the mapping afterwards
RegisterResult(d, task, nameArg, callable) ==
    LET name == ResolveName(task, nameArg) IN
    IF name = NoKey THEN [exc |-> "AttributeError", key |-> NoKey, data |-> d]
    ELSE IF NameTaken(d, name)
    THEN [exc |-> "AlreadyRegistered", key |-> name, data |-> d]
    ELSE LET r == Call(TaskCls(task, name), callable) IN
         IF r.exc # "none" THEN [exc |-> r.exc, key |-> name, data |-> d]
         ELSE [exc |-> "none", key |-> name, data |-> Insert(d, name, r.val)]

\* lines 78-79: the key unregister uses
UnregisterKey(x) == IF HasAttr(x, "run") THEN x.name ELSE x.val

\* an unregister without the membership test: del raises KeyError
UnregisterUnchecked(d, x) ==
    LET name == UnregisterKey(x) IN
    IF name \notin DOMAIN d
    THEN [exc |-> "KeyError", key |-> name, data |-> d]
    ELSE [exc |-> "none", key |-> name, data |-> Remove(d, name)]

\* unregister(name)
UnregisterResult(d, x) ==
    LET name == UnregisterKey(x) IN
    IF name \notin DOMAIN d
    THEN [exc |-> "NotRegistered", key |-> name, data |-> d]
    ELSE [exc |-> "none", key |-> name, data |-> Remove(d, name)]

\* get_all()
GetAllResult(d) == d

\* filter_types(type): task.type raises AttributeError on an entry that has
\* no attribute type
FilterTypes(d, t) ==
    IF \E n \in DOMAIN d : ~HasAttr(d[n], "type")
    THEN [exc |-> "AttributeError", val |-> EmptyData]
    ELSE [exc |-> "none",
          val |-> [n \in {m \in DOMAIN d : d[m].type = t} |-> d[n]]]

GetAllRegular(d) == FilterTypes(d, "regular")
GetAllPeriodic(d) == FilterTypes(d, "periodic")

\* a get_task that answers a missing name with a default (self.data.get)
GetTaskDefault(d, name) ==
    IF name \in DOMAIN d THEN Return(d[name]) ELSE Return(Value("-"))

\* get_task(name): self.data[name]
GetTaskResult(d, name) ==
    IF name \in DOMAIN d THEN Return(d[name]) ELSE Raise("KeyError")

\* ------------------------------------------------------------ the machine
\* last: the latest call, its arguments, its outcome and the mapping it
\* started from
Call0 == [op |-> "init", task |-> Str("-"), nameArg |-> None, targ |-> "-",
          key |-> NoKey, exc |-> "none", retObj |-> Value("-"),
          retMap |-> EmptyData, before |-> EmptyData]

\* naming and threads at rest: no derivation of a class name and no
\* interleaved register under way
NamingIdle == [pc |-> "idle", name |-> << >>, clsname |-> << >>, key |-> << >>]
ThreadsIdle == [th |-> << >>, log |-> << >>]

Init ==
    /\ data = EmptyData
    /\ last = Call0
    /\ taskCallable \in BOOLEAN
    /\ naming = NamingIdle
    /\ threads = ThreadsIdle

Register(task, nameArg) ==
    LET r == RegisterResult(data, task, nameArg, taskCallable) IN
    /\ data' = r.data
    /\ last' = [Call0 EXCEPT !.op = "register", !.task = task,
                             !.nameArg = nameArg, !.key = r.key,
                             !.exc = r.exc, !.before = data]
    /\ UNCHANGED <<taskCallable, naming, threads>>

Unregister(x) ==
    LET r == UnregisterResult(data, x) IN
    /\ data' = r.data
    /\ last' = [Call0 EXCEPT !.op = "unregister", !.task = x, !.key = r.key,
                             !.exc = r.exc, !.before = data]
    /\ UNCHANGED <<taskCallable, naming, threads>>

GetAll ==
    /\ last' = [Call0 EXCEPT !.op = "get_all", !.retMap = GetAllResult(data),
                             !.before = data]
    /\ UNCHANGED <<data, taskCallable, naming, threads>>

FilterTypesCall(t) ==
    LET r == FilterTypes(data, t) IN
    /\ last' = [Call0 EXCEPT !.op = "filter_types", !.targ = t,
                             !.exc = r.exc, !.retMap = r.val, !.before = data]
    /\ UNCHANGED <<data, taskCallable, naming, threads>>

GetAllRegularCall ==
    LET r == GetAllRegular(data) IN
    /\ last' = [Call0 EXCEPT !.op = "get_all_regular", !.exc = r.exc,
                             !.retMap = r.val, !.before = data]
    /\ UNCHANGED <<data, taskCallable, naming, threads>>

GetAllPeriodicCall ==
    LET r == GetAllPeriodic(data) IN
    /\ last' = [Call0 EXCEPT !.op = "get_all_periodic", !.exc = r.exc,
                             !.retMap = r.val, !.before = data]
    /\ UNCHANGED <<data, taskCallable, naming, threads>>

\* a get_task that takes the entry out of the mapping (self.data.pop)
GetTaskPop(n) ==
    LET r == GetTaskResult(data, n) IN
    /\ data' = Remove(data, n)
    /\ last' = [Call0 EXCEPT !.op = "get_task", !.key = n, !.exc = r.exc,
                             !.retObj = r.val, !.before = data]
    /\ UNCHANGED <<taskCallable, naming, threads>>

GetTask(n) ==
    LET r == GetTaskResult(data, n) IN
    /\ last' = [Call0 EXCEPT !.op = "get_task", !.key = n, !.exc = r.exc,
                             !.retObj = r.val, !.before = data]
    /\ UNCHANGED <<data, taskCallable, naming, threads>>

Next ==
    \/ \E task \in Tasks, nameArg \in NameArgs : Register(task, nameArg)
    \/ \E x \in UnregisterArgs : Unregister(x)
    \/ GetAll
    \/ \E t \in FilterArgs : FilterTypesCall(t)
    \/ GetAllRegularCall
    \/ GetAllPeriodicCall
    \/ \E n \in Names : GetTask(n)

Spec == Init /\ [][Next]_vars

\* ------------------------------------------------------- name_to_clsname
\* names as sequences of characters over a small alphabet: a lower-case
\* letter, an upper-case letter, a digit, the underscore and a punctuation
\* character
MaxNameLen == 3
Alphabet == {"a", "B", "1", "_", "-"}
NameSeqs == UNION {[1..n -> Alphabet] : n \in 0..MaxNameLen}

\* \w without re.UNICODE or re.LOCALE: [a-zA-Z0-9_]
WordChars == {"a", "b", "A", "B", "1", "_"}

\* str.upper and str.lower on one character
Upper(c) == CASE c = "a" -> "A" [] c = "b" -> "B" [] OTHER -> c
Lower(c) == CASE c = "A" -> "a" [] c = "B" -> "b" [] OTHER -> c

\* a pattern that leaves the underscore alone: \W
IsIllegalNotUnderscore(c) == c \notin WordChars

\* RE_ILLEGAL_CLASS_CHARS = [\W_]: one character that is not a word
\* character, or the underscore
IsIllegal(c) == c \notin WordChars \/ c = "_"

\* RE_ILLEGAL_CLASS_CHARS.split(name): the pieces between the matches, one
\* (possibly empty) piece between two adjacent matches
RECURSIVE Split(_)
Split(s) ==
    IF s = << >> THEN << << >> >>
    ELSE LET rest == Split(Tail(s)) IN
         IF IsIllegal(Head(s)) THEN << << >> >> \o rest
         ELSE << <<Head(s)>> \o rest[1] >> \o Tail(rest)

\* str.capitalize: the first character upper-cased, the others lower-cased
Capitalize(seg) ==
    IF seg = << >> THEN << >>
    ELSE <<Upper(seg[1])>> \o [i \in 1..(Len(seg) - 1) |-> Lower(seg[i + 1])]

\* "".join(segs)
RECURSIVE Join(_)
Join(segs) == IF segs = << >> THEN << >> ELSE Head(segs) \o Join(Tail(segs))

\* name_to_clsname(name)
NameToClsname(name) ==
    LET pieces == Split(name) IN
    Join([i \in 1..Len(pieces) |-> Capitalize(pieces[i])])

\* the part of register that names the synthesized class: clsname is the
\* label of the type (lines 60, 63), name the key of the entry (line 67)
InitCls ==
    /\ data = EmptyData
    /\ last = Call0
    /\ taskCallable \in BOOLEAN
    /\ threads = ThreadsIdle
    /\ naming \in {[pc |-> "start", name |-> s, clsname |-> << >>, key |-> << >>] :
                     s \in NameSeqs}

Synthesize ==
    /\ naming.pc = "start"
    /\ naming' = [naming EXCEPT !.pc = "done",
                                !.clsname = NameToClsname(naming.name),
                                !.key = naming.name]
    /\ UNCHANGED <<data, last, taskCallable, threads>>

NextCls == Synthesize

SpecCls == InitCls /\ [][NextCls]_vars

\* ------------------------------------------- two register calls at once
\* Two threads call register on one registry, with no lock: a thread can be
\* suspended between the membership test of line 52 and the assignment of
\* line 67.  Each thread registers one task, by name argument or by the
\* task's own name; the registry starts empty.
ThreadIds == {1, 2}

Thread(task, nameArg) ==
    [pc |-> "start", task |-> task, nameArg |-> nameArg, key |-> NoKey,
     exc |-> "none"]

InitConc ==
    /\ data = EmptyData
    /\ last = Call0
    /\ taskCallable \in BOOLEAN
    /\ naming = NamingIdle
    /\ threads \in {[th |-> <<Thread(t1, n1), Thread(t2, n2)>>, log |-> << >>] :
                      t1 \in Tasks, t2 \in Tasks,
                      n1 \in Names \cup {None}, n2 \in Names \cup {None}}

\* lines 47-54 in thread t: resolve the name and test it
CheckName(t) ==
    LET me == threads.th[t]
        name == ResolveName(me.task, me.nameArg) IN
    /\ me.pc = "start"
    /\ threads' =
         [th |-> [threads.th EXCEPT ![t] =
                    IF name = NoKey
                    THEN [me EXCEPT !.pc = "done", !.exc = "AttributeError"]
                    ELSE IF NameTaken(data, name)
                    THEN [me EXCEPT !.pc = "done", !.key = name,
                                    !.exc = "AlreadyRegistered"]
                    ELSE [me EXCEPT !.pc = "checked", !.key = name]],
          log |-> Append(threads.log, <<t, "check">>)]
    /\ UNCHANGED <<data, last, taskCallable, naming>>

\* lines 56-67 in thread t: build the handler and assign it
StoreEntry(t) ==
    LET me == threads.th[t]
        r == Call(TaskCls(me.task, me.key), taskCallable) IN
    /\ me.pc = "checked"
    /\ data' = IF r.exc = "none" THEN Insert(data, me.key, r.val) ELSE data
    /\ threads' =
         [th |-> [threads.th EXCEPT ![t] = [me EXCEPT !.pc = "done", !.exc = r.exc]],
          log |-> Append(threads.log, <<t, "store">>)]
    /\ UNCHANGED <<last, taskCallable, naming>>

NextConc ==
    \/ \E t \in ThreadIds : CheckName(t)
    \/ \E t \in ThreadIds : StoreEntry(t)

SpecConc == InitConc /\ [][NextConc]_vars

TypeOK ==
    /\ DOMAIN data \subseteq Names
    /\ last.op \in {"init", "register", "unregister", "get_all", "filter_types",
                    "get_all_regular", "get_all_periodic", "get_task"}

\* ------------------------------------------------------------- properties
\* the key a register call resolves to, from its arguments
LastRegisterKey == ResolveName(last.task, last.nameArg)

\* the key an unregister call resolves to, from its argument
LastUnregisterKey == UnregisterKey(last.task)

\* C1: register(task, n) with an explicit name n that is not a key succeeds,
\* and get_task(n) right after it returns a handler whose name is n.
C1_RegisterThenGetTask ==
    (/\ last.op = "register"
     /\ ~NameOmitted(last.nameArg)
     /\ last.nameArg \notin DOMAIN last.before)
    => /\ last.exc = "none"
       /\ GetTaskResult(data, last.nameArg).exc = "none"
       /\ GetTaskResult(data, last.nameArg).val.name = last.nameArg

\* C2: a register whose resolved name is already a key fails with
\* AlreadyRegistered and leaves the mapping as it was.
C2_DuplicateRegisterFails ==
    (/\ last.op = "register"
     /\ LastRegisterKey \in DOMAIN last.before)
    => /\ last.exc = "AlreadyRegistered"
       /\ data = last.before

C2_Witness ==
    /\ last.op = "register"
    /\ LastRegisterKey \in DOMAIN last.before
    /\ last.exc = "AlreadyRegistered"
    /\ last.task.kind = "class"
    /\ data[LastRegisterKey] # Instantiate(last.task)

\* C3: an unregister whose key is absent fails with NotRegistered and leaves
\* the mapping as it was.
C3_UnregisterAbsentFails ==
    (/\ last.op = "unregister"
     /\ LastUnregisterKey \notin DOMAIN last.before)
    => /\ last.exc = "NotRegistered"
       /\ data = last.before

C3_Witness ==
    /\ last.op = "unregister"
    /\ LastUnregisterKey \notin DOMAIN last.before
    /\ last.exc = "NotRegistered"
    /\ data # EmptyData
    /\ data = last.before

\* C4: no step replaces an entry (a name that stays a key keeps its handler),
\* a successful register inserts under a name that was not a key, and a name
\* stops being a key only by a successful unregister of that name.  (The
\* mapping is a function, so it holds one entry per name.)
C4_NoReplace ==
    [][/\ \A n \in DOMAIN data \cap DOMAIN data' : data'[n] = data[n]
       /\ (last'.op = "register" /\ last'.exc = "none")
            => /\ last'.key \notin DOMAIN data
               /\ DOMAIN data' = DOMAIN data \cup {last'.key}
       /\ \A n \in DOMAIN data \ DOMAIN data' :
            last'.op = "unregister" /\ last'.exc = "none" /\ last'.key = n
      ]_vars

C4_Witness ==
    /\ last.op = "register"
    /\ last.exc = "AlreadyRegistered"
    /\ Cardinality(DOMAIN data) = 2
    /\ last.task.kind = "func"
    /\ data[last.key].kind = "instance"

\* C5: registering a plain function f (with the attribute name, the name
\* not yet a key) and no name argument succeeds and stores a handler of
\* type "regular" whose run(*a) gives what f(*a) gives, errors included.
C5_PlainFunctionHandler ==
    (/\ last.op = "register"
     /\ last.task.kind = "func"
     /\ last.nameArg = None
     /\ HasAttr(last.task, "name")
     /\ last.task.name \notin DOMAIN last.before)
    => /\ last.exc = "none"
       /\ last.task.name \in DOMAIN data
       /\ data[last.task.name].kind = "instance"
       /\ data[last.task.name].type = "regular"
       /\ \A args \in ArgLists :
            Run(data[last.task.name], args) = FnCall(last.task.fn, args)

\* C6: after a successful register the value under the resolved name is one
\* instance of the handler type: of the caller's class for a native
\* handler, of the synthesized class (name, type, run) for a plain callable.
C6_StoresInstance ==
    (last.op = "register" /\ last.exc = "none")
    => /\ LastRegisterKey \in DOMAIN data
       /\ data[LastRegisterKey] =
            IF last.task.kind = "class" THEN Instantiate(last.task)
            ELSE SynthInstance(LastRegisterKey, last.task.fn)

\* C7: right after a successful unregister(n), get_task(n) fails with the
\* mapping's missing-key error and returns no handler.
C7_GetTaskAfterUnregisterFails ==
    (last.op = "unregister" /\ last.exc = "none")
    => /\ GetTaskResult(data, LastUnregisterKey).exc = "KeyError"
       /\ GetTaskResult(data, LastUnregisterKey).val
            # last.before[LastUnregisterKey]

C7_Witness ==
    /\ last.op = "unregister"
    /\ last.exc = "none"
    /\ LastUnregisterKey \in DOMAIN last.before
    /\ GetTaskResult(data, LastUnregisterKey).exc = "KeyError"

\* the type values present among the entries
PresentTypes(d) == {d[n].type : n \in {m \in DOMAIN d : HasAttr(d[m], "type")}}

\* C8: the results of filter_types(t) over the types t present among the
\* entries partition the mapping: every entry is in exactly one result, and
\* every result holds only entries of the mapping.
C8_FilterTypesPartition ==
    /\ \A n \in DOMAIN data :
         Cardinality({t \in PresentTypes(data) :
                        /\ FilterTypes(data, t).exc = "none"
                        /\ n \in DOMAIN FilterTypes(data, t).val
                        /\ FilterTypes(data, t).val[n] = data[n]}) = 1
    /\ \A t \in PresentTypes(data) :
         /\ FilterTypes(data, t).exc = "none"
         /\ \A n \in DOMAIN FilterTypes(data, t).val :
              n \in DOMAIN data /\ FilterTypes(data, t).val[n] = data[n]

\* the entries of d whose type is t
SubMapping(d, t) ==
    [n \in {m \in DOMAIN d : HasAttr(d[m], "type") /\ d[m].type = t} |-> d[n]]

\* C9: filter_types(t) raises nothing and returns the entries whose type is
\* t (none: the empty mapping); get_all_regular and get_all_periodic are
\* filter_types of "regular" and "periodic"; get_all is the whole mapping.
C9_FilterTypesSubMapping ==
    /\ \A t \in FilterArgs :
         FilterTypes(data, t) = [exc |-> "none", val |-> SubMapping(data, t)]
    /\ GetAllRegular(data) = [exc |-> "none", val |-> SubMapping(data, "regular")]
    /\ GetAllPeriodic(data) = [exc |-> "none", val |-> SubMapping(data, "periodic")]
    /\ GetAllResult(data) = data

\* a successful unregister removes the entry under its key and no other
UnregisterFrame ==
    (last'.op = "unregister" /\ last'.exc = "none")
    => /\ last'.key = (IF last'.task.kind = "str" THEN last'.task.val
                       ELSE last'.task.name)
       /\ last'.key \in DOMAIN data
       /\ DOMAIN data' = DOMAIN data \ {last'.key}
       /\ \A n \in DOMAIN data' : data'[n] = data[n]

\* the call before was a successful register of a native handler and this
\* call is a successful unregister of the same handler
UnregisterOfJustRegistered ==
    /\ last.op = "register" /\ last.exc = "none" /\ last.task.kind = "class"
    /\ last'.op = "unregister" /\ last'.exc = "none"
    /\ last'.task = last.task

\* C10 as stated: a successful unregister(x) removes exactly the entry under
\* x (a string) or x.name (a native handler); a successful unregister(h) of
\* a native handler h registered by the call before removes the entry that
\* registration created.
C10_UnregisterRemovesRegistered ==
    [][/\ UnregisterFrame
       /\ UnregisterOfJustRegistered => last.key \notin DOMAIN data'
      ]_vars

\* C10 amended: the same, for a native handler h registered under its own
\* name attribute (no name argument, or one equal to h.name).
C10_UnregisterRemovesOwnName ==
    [][/\ UnregisterFrame
       /\ (UnregisterOfJustRegistered /\ last.key = last.task.name)
            => last.key \notin DOMAIN data'
      ]_vars

C10_Witness ==
    /\ last.op = "unregister"
    /\ last.exc = "none"
    /\ last.task.kind = "class"
    /\ last.before[last.key] = Instantiate(last.task)
    /\ Cardinality(DOMAIN last.before) = 2
    /\ Cardinality(DOMAIN data) = 1

\* C11: register without a name argument on a task that has no name
\* attribute raises (getattr's AttributeError) and leaves the mapping as it
\* was: no entry is inserted under any key.
C11_UndefinedNameFails ==
    (/\ last.op = "register"
     /\ NameOmitted(last.nameArg)
     /\ last.task.name = NoAttr)
    => /\ last.exc = "AttributeError"
       /\ data = last.before

C11_Witness ==
    /\ last.op = "register"
    /\ last.nameArg = None
    /\ last.task.name = NoAttr
    /\ last.exc = "AttributeError"
    /\ data = last.before
    /\ NameList[1] \notin DOMAIN data

\* C12 as stated: get_task of an absent name fails with NotRegistered, the
\* error unregister raises for an absent name, and leaves the mapping as it
\* was.
C12_GetTaskAbsentNotRegistered ==
    (last.op = "get_task" /\ last.key \notin DOMAIN last.before)
    => /\ last.exc = "NotRegistered"
       /\ last.exc = UnregisterResult(last.before, Str(last.key)).exc
       /\ data = last.before

\* C12 amended: get_task of an absent name fails with the mapping's
\* KeyError, which is not the NotRegistered of unregister, and leaves the
\* mapping as it was.
C12_GetTaskAbsentKeyError ==
    (last.op = "get_task" /\ last.key \notin DOMAIN last.before)
    => /\ last.exc = "KeyError"
       /\ UnregisterResult(last.before, Str(last.key)).exc = "NotRegistered"
       /\ data = last.before

C12_Witness ==
    /\ last.op = "get_task"
    /\ last.key \notin DOMAIN last.before
    /\ last.exc = "KeyError"
    /\ data # EmptyData

\* the keys a call added to the mapping
NewKeys == DOMAIN data \ DOMAIN last.before

\* C13 as stated: a successful register keys the new entry by the name
\* argument whenever one is supplied, the empty string included, whatever
\* the task's own name; by the task's name only when the argument is omitted.
C13_KeyIsNameArgument ==
    (last.op = "register" /\ last.exc = "none")
    => IF last.nameArg # None THEN NewKeys = {last.nameArg}
       ELSE NewKeys = {last.task.name}

\* C13 amended: by the name argument whenever a non-empty one is supplied;
\* by the task's own name when the argument is omitted or is the empty
\* string.
C13_KeyIsNonEmptyNameArgument ==
    (last.op = "register" /\ last.exc = "none")
    => IF last.nameArg \notin {None, EmptyName} THEN NewKeys = {last.nameArg}
       ELSE NewKeys = {last.task.name}

C13_Witness ==
    /\ last.op = "register"
    /\ last.exc = "none"
    /\ last.nameArg \in Names
    /\ last.task.name \in Names
    /\ last.task.name # last.nameArg
    /\ NewKeys = {last.nameArg}

\* C16: register does not call the plain function it is given: registering
\* a function whose body raises (under a name that is not a key) succeeds
\* and inserts the entry.
C16_RegisterDoesNotInvoke ==
    (/\ last.op = "register"
     /\ last.task.kind = "func"
     /\ last.task.fn = "fail"
     /\ LastRegisterKey # NoKey
     /\ LastRegisterKey \notin DOMAIN last.before)
    => /\ last.exc = "none"
       /\ DOMAIN data = DOMAIN last.before \cup {LastRegisterKey}

\* C17 as stated: for every name n that is not a key, the empty string
\* included, register(task, n) followed by unregister(n) leaves the mapping
\* with the content it had before the register.
C17_RegisterUnregisterRestores ==
    (/\ last.op = "register"
     /\ last.nameArg # None
     /\ last.nameArg \notin DOMAIN last.before)
    => UnregisterResult(data, Str(last.nameArg)).data = last.before

\* C17 amended: the same for every non-empty name n.
C17_RegisterUnregisterRestoresNonEmpty ==
    (/\ last.op = "register"
     /\ ~NameOmitted(last.nameArg)
     /\ last.nameArg \notin DOMAIN last.before)
    => UnregisterResult(data, Str(last.nameArg)).data = last.before

C17_Witness ==
    /\ last.op = "register"
    /\ last.exc = "none"
    /\ last.nameArg \in Names
    /\ last.before # EmptyData
    /\ data # last.before
    /\ UnregisterResult(data, Str(last.nameArg)).exc = "none"
    /\ UnregisterResult(data, Str(last.nameArg)).data = last.before

ReadOps == {"get_all", "get_task", "filter_types", "get_all_regular",
            "get_all_periodic"}

\* C19: a call of get_all, get_task, filter_types, get_all_regular or
\* get_all_periodic, whether it returns or raises, leaves the keys and the
\* handler under each key as they were.
C19_ReadsDoNotMutate ==
    [][last'.op \in ReadOps
         => /\ DOMAIN data' = DOMAIN data
            /\ \A n \in DOMAIN data : data'[n] = data[n]
      ]_vars

C19_Witness ==
    /\ last.op = "get_task"
    /\ last.exc = "none"
    /\ last.retObj = data[last.key]
    /\ data = last.before
    /\ Cardinality(DOMAIN data) = 2

\* the task has an attribute run, callable or not
HasRunAttribute(task) == task.kind = "class" \/ task.of = "run-attr"

\* the task has an attribute run that is callable
HasCallableRun(task) == task.kind = "class"

\* the same function without the attribute run
WithoutRun(task) == [task EXCEPT !.of = "-"]

\* C15 as stated: register takes the task as it is (a native handler)
\* exactly when it has a callable run; a task whose run exists but is not
\* callable is wrapped like the plain function without that attribute.
C15_NativeIffCallableRun ==
    (last.op = "register" /\ LastRegisterKey # NoKey)
    => /\ (TaskCls(last.task, LastRegisterKey) = last.task)
            <=> HasCallableRun(last.task)
       /\ last.task.of = "run-attr"
            => /\ last.exc = RegisterResult(last.before, WithoutRun(last.task),
                                            last.nameArg, taskCallable).exc
               /\ data = RegisterResult(last.before, WithoutRun(last.task),
                                        last.nameArg, taskCallable).data

\* C15 amended: register takes the task as it is exactly when it has an
\* attribute run, callable or not: line 67 then calls the task itself, so a
\* function carrying a run that is not callable is called directly and its
\* return value stored, whether or not Task instances are callable.
C15_NativeIffRunAttribute ==
    (last.op = "register" /\ LastRegisterKey # NoKey)
    => /\ (TaskCls(last.task, LastRegisterKey) = last.task)
            <=> HasRunAttribute(last.task)
       /\ (last.task.of = "run-attr" /\ LastRegisterKey \notin DOMAIN last.before)
            => /\ last.exc = FnCall(last.task.fn, NoArgs).exc
               /\ data[LastRegisterKey] = FnCall(last.task.fn, NoArgs).val

C15_Witness ==
    /\ last.op = "register"
    /\ last.task.of = "run-attr"
    /\ last.exc = "none"
    /\ ~taskCallable
    /\ data[last.key] = Value(ConstValue)

\* letters and digits
AlphaNumeric == {"a", "b", "A", "B", "1"}

\* s[i] starts a segment: it is the first character or follows a character
\* that is not a letter or a digit
StartsSegment(s, i) == i = 1 \/ s[i - 1] \notin AlphaNumeric

\* the letters and digits of s from position i on, each one that starts a
\* segment upper-cased and the others left as they are
RECURSIVE UpperFirstFrom(_, _)
UpperFirstFrom(s, i) ==
    IF i > Len(s) THEN << >>
    ELSE IF s[i] \notin AlphaNumeric THEN UpperFirstFrom(s, i + 1)
    ELSE <<IF StartsSegment(s, i) THEN Upper(s[i]) ELSE s[i]>>
         \o UpperFirstFrom(s, i + 1)

\* the same with the other characters of a segment lower-cased
RECURSIVE CapitalizedFrom(_, _)
CapitalizedFrom(s, i) ==
    IF i > Len(s) THEN << >>
    ELSE IF s[i] \notin AlphaNumeric THEN CapitalizedFrom(s, i + 1)
    ELSE <<IF StartsSegment(s, i) THEN Upper(s[i]) ELSE Lower(s[i])>>
         \o CapitalizedFrom(s, i + 1)

\* C14 as stated: name_to_clsname(name) is the concatenation of the segments
\* of name between runs of characters that are not letters or digits, each
\* with its first character upper-cased; it labels the synthesized type and
\* the entry is keyed by name.
C14_ClsnameUpperFirst ==
    naming.pc = "done"
    => /\ naming.clsname = UpperFirstFrom(naming.name, 1)
       /\ naming.key = naming.name

\* C14 amended: each segment with its first character upper-cased and its
\* other characters lower-cased.
C14_ClsnameCapitalized ==
    naming.pc = "done"
    => /\ naming.clsname = CapitalizedFrom(naming.name, 1)
       /\ naming.key = naming.name

C14_Witness ==
    /\ naming.pc = "done"
    /\ naming.name = <<"a", "_", "B">>
    /\ naming.clsname = <<"A", "B">>
    /\ naming.key = <<"a", "_", "B">>

\* both calls have returned or raised, and both resolved to one name
BothDoneSameName ==
    /\ threads.th # << >>
    /\ \A t \in ThreadIds : threads.th[t].pc = "done"
    /\ threads.th[1].key = threads.th[2].key
    /\ threads.th[1].key # NoKey

\* both membership tests ran before either assignment
TestsBeforeStores == threads.log[2][2] = "check"

\* one call ran to its end before the other began
OneAfterTheOther == threads.log[2][2] = "store"

\* the thread of the k-th step
StepThread(k) == threads.log[k][1]

\* C18: with both membership tests ahead of both assignments, neither call
\* raises AlreadyRegistered (both pass the test, and where both succeed the
\* entry is there from the call that assigned last); with one call after
\* the other, exactly one of the two succeeds.
C18_UnlockedRegister ==
    BothDoneSameName
    => /\ TestsBeforeStores
            => /\ \A t \in ThreadIds : threads.th[t].exc # "AlreadyRegistered"
               /\ (\A t \in ThreadIds : threads.th[t].exc = "none")
                    => threads.th[1].key \in DOMAIN data
       /\ OneAfterTheOther
            => Cardinality({t \in ThreadIds : threads.th[t].exc = "none"}) = 1

\* both calls register a Task class
BothClasses == \A t \in ThreadIds : threads.th[t].task.kind = "class"

\* For two Task classes: with both membership tests ahead of both
\* assignments, both calls succeed and the entry is the handler of the call
\* that assigned last (the earlier handler is lost); with one call after
\* the other, the first succeeds, the second raises AlreadyRegistered and
\* the entry is the first call's handler.
UnlockedRegisterOfClasses ==
    (BothDoneSameName /\ BothClasses)
    => /\ TestsBeforeStores
            => /\ \A t \in ThreadIds : threads.th[t].exc = "none"
               /\ data[threads.th[1].key]
                    = Instantiate(threads.th[StepThread(4)].task)
       /\ OneAfterTheOther
            => /\ threads.th[StepThread(1)].exc = "none"
               /\ threads.th[StepThread(3)].exc = "AlreadyRegistered"
               /\ data[threads.th[1].key]
                    = Instantiate(threads.th[StepThread(1)].task)

\* a lost update: both calls succeeded and the first handler assigned is gone
LostUpdate ==
    /\ BothDoneSameName
    /\ BothClasses
    /\ TestsBeforeStores
    /\ threads.th[1].exc = "none" /\ threads.th[2].exc = "none"
    /\ threads.th[1].task # threads.th[2].task
    /\ data[threads.th[1].key] = Instantiate(threads.th[StepThread(4)].task)
    /\ data[threads.th[1].key] # Instantiate(threads.th[StepThread(3)].task)
====
